---- MODULE Spec2Model ----
(***************************************************************************)
(* Model of src/app.py: the endpoint handle kept in the module globals     *)
(* client / status_message / is_working, get_lora_client (the client       *)
(* initializer), generate_response (the response generator), refresh_model *)
(* and the three front-end handlers that call generate_response.           *)
(*                                                                         *)
(* Texts are sequences of one-character strings, so that Python's `in`,    *)
(* .lower() and .strip() are computed on characters.  Numbers are counted  *)
(* in tenths (Tenth units make 1), so that 0.7 is 7 and 400 is 4000.       *)
(*                                                                         *)
(* Gradio runs event handlers on worker threads.  refresh_model and        *)
(* generate_response share the three globals without a lock, so each read  *)
(* or write of a global is a step of its own and steps of different        *)
(* handlers interleave.  Statements that touch no global belong to the     *)
(* step of the next read or write of one.  One refresh_model runs at a     *)
(* time (one listener of refresh_btn.click); generate_response runs in     *)
(* NumRequests slots, each taken again after its call has returned.        *)
(***************************************************************************)
EXTENDS Integers, Sequences, FiniteSets, TLC

\* ---------------------------------------------------------------- bounds
\* Concurrent invocations of generate_response.
NumRequests == 1
\* InferenceClient objects constructed in one run of the app.
MaxHandles == 2

\* ----------------------------------------------------------------- texts
\* Error texts of a failing InferenceClient(...) constructor (str(e), line 23).
Err401 ==
  <<"4","0","1"," ","C","l","i","e","n","t"," ","E","r","r","o","r">>
ErrUnauthorized ==
  <<"U","n","a","u","t","h","o","r","i","z","e","d">>
ErrGated ==
  <<"G","a","t","e","d"," ","r","e","p","o">>
ErrForbiddenNotFound ==
  <<"4","0","3"," ","F","o","r","b","i","d","d","e","n",":"," ","4","0","4"," ","N","o","t"," ","F","o","u","n","d">>
ErrUnauthorizedGated ==
  <<"u","n","a","u","t","h","o","r","i","z","e","d"," ","f","o","r"," ","G","A","T","E","D"," ","r","e","p","o">>
ErrNotFound ==
  <<"R","e","p","o","s","i","t","o","r","y"," ","N","o","t"," ","F","o","u","n","d">>
ErrTimeout ==
  <<"C","o","n","n","e","c","t","i","o","n"," ","t","i","m","e","d"," ","o","u","t">>
\* Error texts of a failing endpoint call (chat_completion, text_generation).
ErrNotSupported ==
  <<"T","a","s","k"," ","N","o","t"," ","S","u","p","p","o","r","t","e","d">>
ErrBadRequest ==
  <<"4","0","0"," ","B","a","d"," ","R","e","q","u","e","s","t">>
\* Python's own error texts: attribute access on None, [0] of an empty list.
ErrNoChat ==
  <<"'","N","o","n","e","T","y","p","e","'"," ","o","b","j","e","c","t"," ","h","a","s"," ","n","o"," ","a","t","t","r","i","b","u","t","e"," ","'","c","h","a","t","_","c","o","m","p","l","e","t","i","o","n","'">>
ErrNoTextGen ==
  <<"'","N","o","n","e","T","y","p","e","'"," ","o","b","j","e","c","t"," ","h","a","s"," ","n","o"," ","a","t","t","r","i","b","u","t","e"," ","'","t","e","x","t","_","g","e","n","e","r","a","t","i","o","n","'">>
ErrNoStrip ==
  <<"'","N","o","n","e","T","y","p","e","'"," ","o","b","j","e","c","t"," ","h","a","s"," ","n","o"," ","a","t","t","r","i","b","u","t","e"," ","'","s","t","r","i","p","'">>
ErrIndex ==
  <<"l","i","s","t"," ","i","n","d","e","x"," ","o","u","t"," ","o","f"," ","r","a","n","g","e">>
\* Generated texts the endpoint returns, and str() of the odd responses.
TextPadded ==
  <<" "," ","D","u","n","e","."," "," ">>
TextBlank ==
  <<" ","\n"," ">>
TextNone ==
  <<"N","o","n","e">>
TextNoChoices ==
  <<"C","h","a","t","C","o","m","p","l","e","t","i","o","n","O","u","t","p","u","t","(","c","h","o","i","c","e","s","=","[","]",")">>
TextErrDict ==
  <<"{","'","e","r","r","o","r","'",":"," ","'","x","'","}">>
\* The fixed apology of line 86.
Apology ==
  <<"I"," ","a","p","o","l","o","g","i","z","e",","," ","b","u","t"," ","I"," ","c","o","u","l","d","n","'","t"," ","g","e","n","e","r","a","t","e"," ","a"," ","r","e","s","p","o","n","s","e","."," ","P","l","e","a","s","e"," ","t","r","y"," ","r","e","p","h","r","a","s","i","n","g"," ","y","o","u","r"," ","q","u","e","s","t","i","o","n",".">>

\* ------------------------------------------------------- Python strings
UpperCase == <<"A","B","C","D","E","F","G","H","I","J","K","L","M","N","O","P","Q","R","S","T","U","V","W","X","Y","Z">>
LowerCase == <<"a","b","c","d","e","f","g","h","i","j","k","l","m","n","o","p","q","r","s","t","u","v","w","x","y","z">>

\* str.lower() of one character.
LowerChar(c) ==
  IF \E i \in 1..Len(UpperCase) : UpperCase[i] = c
  THEN LowerCase[CHOOSE i \in 1..Len(UpperCase) : UpperCase[i] = c]
  ELSE c

\* str.lower()
Lower(t) == [i \in 1..Len(t) |-> LowerChar(t[i])]

\* Python's `pat in t` on strings.
Contains(pat, t) ==
  \E i \in 0..(Len(t) - Len(pat)) : SubSeq(t, i + 1, i + Len(pat)) = pat

IsSpace(c) == c \in {" ", "\n", "\t"}

RECURSIVE LStrip(_)
LStrip(t) ==
  IF t # <<>> /\ IsSpace(Head(t)) THEN LStrip(Tail(t)) ELSE t

RECURSIVE RStrip(_)
RStrip(t) ==
  IF t # <<>> /\ IsSpace(t[Len(t)]) THEN RStrip(SubSeq(t, 1, Len(t) - 1)) ELSE t

\* str.strip()
Strip(t) == RStrip(LStrip(t))

\* ------------------------------------------------------------- numbers
\* Units in 1: numbers are counted in tenths, the step of the temperature slider.
Tenth == 10
\* gr.Slider(0.1, 1.0, value=0.7, step=0.1)
TemperatureMin == 1
TemperatureMax == 10
TemperatureValue == 7
TemperatureStep == 1
\* gr.Slider(100, 800, value=400, step=50)
MaxLengthMin == 100 * Tenth
MaxLengthMax == 800 * Tenth
MaxLengthValue == 400 * Tenth
MaxLengthStep == 50 * Tenth
\* generate_response(..., max_length=400, temperature=0.7)
DefaultMaxLength == 400 * Tenth
DefaultTemperature == 7
\* min(max_length, 200), min(temperature, 0.8) of the fallback call
FallbackMaxTokens == 200 * Tenth
FallbackMaxTemperature == 8

Min(a, b) == IF a <= b THEN a ELSE b

\* ------------------------------------------------- the client initializer
\* hf_token = os.getenv("HF_TOKEN"): unset (None), set to "", or set to a token.
TokenValues == {"unset", "empty", "token"}

\* `not hf_token`
TokenMissing(token) == token \in {"unset", "empty"}

\* client is None
NoClient == 0

\* What InferenceClient(model=model_name, token=hf_token) does: it returns an
\* object or raises; it sends nothing to the endpoint.
InitErrors ==
  {Err401, ErrUnauthorized, ErrForbiddenNotFound, ErrUnauthorizedGated,
   ErrNotFound, ErrGated, ErrTimeout}
\* Two of them, of different classes.
UsualInitErrors == {Err401, ErrTimeout}
Constructed == [called |-> TRUE, raised |-> FALSE, err |-> <<>>]
ConstructorOutcomes(errors) ==
  {Constructed}
    \cup {[called |-> TRUE, raised |-> TRUE, err |-> e] : e \in errors}
\* The constructor is not reached.
NotCalled == [called |-> FALSE, raised |-> FALSE, err |-> <<>>]

\* A status string: its message class and the error text it embeds.
Status(kind, err) == [kind |-> kind, err |-> err]
NoStatus == Status("none", <<>>)

\* Mutant of ClassifyError: 404 / not found tested before 403 / forbidden / gated.
ClassifyErrorNotFoundFirst(error_msg) ==
  IF Contains(<<"4","0","1">>, error_msg)
     \/ Contains(<<"u","n","a","u","t","h","o","r","i","z","e","d">>, Lower(error_msg))
  THEN Status("auth", <<>>)
  ELSE IF Contains(<<"4","0","4">>, error_msg)
          \/ Contains(<<"n","o","t"," ","f","o","u","n","d">>, Lower(error_msg))
  THEN Status("not_found", <<>>)
  ELSE IF Contains(<<"4","0","3">>, error_msg)
          \/ Contains(<<"f","o","r","b","i","d","d","e","n">>, Lower(error_msg))
          \/ Contains(<<"g","a","t","e","d">>, Lower(error_msg))
  THEN Status("denied", error_msg)
  ELSE Status("generic", error_msg)

\* The if / elif chain of the except branch: the status for an error text.
ClassifyError(error_msg) ==
  IF Contains(<<"4","0","1">>, error_msg)
     \/ Contains(<<"u","n","a","u","t","h","o","r","i","z","e","d">>, Lower(error_msg))
  THEN Status("auth", <<>>)
  ELSE IF Contains(<<"4","0","3">>, error_msg)
          \/ Contains(<<"f","o","r","b","i","d","d","e","n">>, Lower(error_msg))
          \/ Contains(<<"g","a","t","e","d">>, Lower(error_msg))
  THEN Status("denied", error_msg)
  ELSE IF Contains(<<"4","0","4">>, error_msg)
          \/ Contains(<<"n","o","t"," ","f","o","u","n","d">>, Lower(error_msg))
  THEN Status("not_found", <<>>)
  ELSE Status("generic", error_msg)

\* Mutant of get_lora_client: the credential test is dropped.
get_lora_client_no_token_test(token, ctor, handle) ==
  IF ctor.raised
  THEN [client |-> NoClient, status |-> ClassifyError(ctor.err), ctor |-> ctor]
  ELSE [client |-> handle, status |-> Status("ready", <<>>), ctor |-> ctor]

\* get_lora_client() -> (client, status).  `ctor` is what the constructor does
\* if it is reached and `handle` the object it then returns; the result also
\* tells what the constructor did in this run (NotCalled: it was not reached).
get_lora_client(token, ctor, handle) ==
  IF TokenMissing(token)
  THEN [client |-> NoClient, status |-> Status("no_token", <<>>), ctor |-> NotCalled]
  ELSE IF ctor.raised
  THEN [client |-> NoClient, status |-> ClassifyError(ctor.err), ctor |-> ctor]
  ELSE [client |-> handle, status |-> Status("ready", <<>>), ctor |-> ctor]

\* ------------------------------------------------- the endpoint's answers
CallErrors == {ErrNotSupported, ErrBadRequest}

\* message.content of a choice: a string or None.
Content(t) == [none |-> FALSE, text |-> t]
NoneContent == [none |-> TRUE, text |-> <<>>]

\* A chat_completion response: an object with .choices, a dict (with or without
\* the key 'choices'), or None.
Response(type, has_choices, choices) ==
  [type |-> type, has_choices |-> has_choices, choices |-> choices]
ChatResponses ==
  {Response("object", TRUE, <<Content(TextPadded)>>),
   Response("object", TRUE, <<Content(TextBlank)>>),
   Response("object", TRUE, <<NoneContent>>),
   Response("object", TRUE, <<>>),
   Response("dict", TRUE, <<Content(TextPadded)>>),
   Response("dict", TRUE, <<>>),
   Response("dict", FALSE, <<>>),
   Response("none", FALSE, <<>>)}

\* What a call returns to generate_response: a value or a raised exception.
Returned(v) == [raised |-> FALSE, err |-> <<>>, value |-> v]
Raised(e) == [raised |-> TRUE, err |-> e, value |-> Response("none", FALSE, <<>>)]
ChatOutcomes ==
  {Returned(r) : r \in ChatResponses} \cup {Raised(e) : e \in CallErrors}

\* text_generation returns a string or raises.
GeneratedTexts == {TextPadded, TextBlank, <<>>}
TextOutcomes ==
  {[raised |-> FALSE, err |-> <<>>, value |-> t] : t \in GeneratedTexts}
    \cup {[raised |-> TRUE, err |-> ErrBadRequest, value |-> <<>>]}

\* bool(response)
Truthy(response) == response.type # "none"

\* str(response) of the responses that reach the last branch.
Str(response) ==
  CASE response.type = "none" -> TextNone
    [] response.type = "dict" -> TextErrDict
    [] OTHER -> TextNoChoices

\* content.strip(): AttributeError when the content is None.
StripContent(content) ==
  IF content.none THEN Raised(ErrNoStrip) ELSE Returned(Strip(content.text))

\* The three branches that turn a chat_completion response into the returned
\* text; an exception of the decoding is raised inside the inner try.
DecodeChat(response) ==
  IF Truthy(response) /\ response.type = "object" /\ response.has_choices
     /\ response.choices # <<>>
  THEN StripContent(response.choices[1])
  ELSE IF response.type = "dict" /\ response.has_choices
  THEN IF response.choices = <<>>
       THEN Raised(ErrIndex)
       ELSE StripContent(response.choices[1])
  ELSE Returned(Strip(Str(response)))

\* ------------------------------------------------------------- the state
VARIABLES
  hf_token,          \* the credential read at import (line 7)
  client,            \* global client: NoClient or the id of an InferenceClient
  status_message,    \* global status_message
  is_working,        \* global is_working
  ui,                \* which branch of `if not is_working` built the page
  temperature_pos,   \* where the user has put the temperature slider
  max_length_pos,    \* where the user has put the length slider
  handles_made,      \* InferenceClient objects constructed so far
  startup,           \* what the constructor did at startup (never written again)
  refresh,           \* the running refresh_model: position and local result
  req                \* the invocations of generate_response

vars ==
  <<hf_token, client, status_message, is_working, ui, temperature_pos,
    max_length_pos, handles_made, startup, refresh, req>>

Requests == 1..NumRequests

\* The string generate_response returns: which return statement built it, the
\* generated or error text in it, and the status it embeds.
Result(kind, text, status) == [kind |-> kind, text |-> text, status |-> status]
NoResult == Result("none", <<>>, NoStatus)

\* One attempted endpoint call: its style, the handle it is made on and its
\* token and temperature parameters.
Attempt(style, handle, tokens, temperature) ==
  [style |-> style, handle |-> handle, tokens |-> tokens,
   temperature |-> temperature]

\* A free slot.  gate is the value of is_working the call read, calls the
\* endpoint calls it has attempted, primary how the inner try ended.
IdleRequest ==
  [pc |-> "idle", max_length |-> DefaultMaxLength,
   temperature |-> DefaultTemperature, gate |-> FALSE, calls |-> <<>>,
   primary |-> "none", chat_error |-> <<>>, result |-> NoResult]

IdleRefresh ==
  [pc |-> "idle",
   ret |-> [client |-> NoClient, status |-> NoStatus, ctor |-> NotCalled]]

\* The identity of a newly constructed InferenceClient: the objects are
\* numbered in the order of their construction.
NewHandle == handles_made + 1

\* client is not None
ReadyFlag(c) == c # NoClient

\* Lines 38-39 and the page built from them: the state when the app serves.
Startup(errors) ==
  \E token \in TokenValues :
    \E ctor \in ConstructorOutcomes(errors) :
      LET got == get_lora_client(token, ctor, 1) IN
        /\ hf_token = token
        /\ client = got.client
        /\ status_message = got.status
        /\ is_working = ReadyFlag(got.client)
        /\ ui = IF ReadyFlag(got.client) THEN "full" ELSE "setup"
        /\ temperature_pos = TemperatureValue
        /\ max_length_pos = MaxLengthValue
        /\ handles_made = IF got.client # NoClient THEN 1 ELSE 0
        /\ startup = got.ctor
        /\ refresh = IdleRefresh
        /\ req = [r \in Requests |-> IdleRequest]

Init == Startup(UsualInitErrors)

\* ----------------------------------------------------------- refresh_model
\* The Refresh button exists only on the page built when is_working was true.
RefreshAvailable == ui = "full"

\* refresh_btn.click: get_lora_client() runs, and the first store of
\* `client, status_message = ...` writes the global client.
refresh_model_store_client(errors) ==
  /\ RefreshAvailable
  /\ refresh.pc = "idle"
  /\ \E ctor \in ConstructorOutcomes(errors) :
       LET got == get_lora_client(hf_token, ctor, NewHandle) IN
         /\ got.client # NoClient => handles_made < MaxHandles
         /\ handles_made' = IF got.client # NoClient THEN NewHandle
                             ELSE handles_made
         /\ client' = got.client
         /\ refresh' = [pc |-> "store_status", ret |-> got]
  /\ UNCHANGED <<hf_token, status_message, is_working, ui, temperature_pos,
                 max_length_pos, startup, req>>

\* The second store of `client, status_message = ...`.
refresh_model_store_status ==
  /\ refresh.pc = "store_status"
  /\ status_message' = refresh.ret.status
  /\ refresh' = [refresh EXCEPT !.pc = "store_is_working"]
  /\ UNCHANGED <<hf_token, client, is_working, ui, temperature_pos,
                 max_length_pos, handles_made, startup, req>>

\* is_working = client is not None, and the return of status_message (to the
\* Model Status textbox, which is the toolkit's and is not modelled).
refresh_model_store_is_working ==
  /\ refresh.pc = "store_is_working"
  /\ is_working' = ReadyFlag(client)
  /\ refresh' = IdleRefresh
  /\ UNCHANGED <<hf_token, client, status_message, ui, temperature_pos,
                 max_length_pos, handles_made, startup, req>>

\* ------------------------------------------------------ the front-end calls
\* The arguments generate_response receives.
GenerateArgs(max_length, temperature) ==
  [max_length |-> max_length, temperature |-> temperature]

\* chat_interface passes both by keyword.
chat_interface(temperature, max_length) == GenerateArgs(max_length, temperature)

\* generate_response(instruction, input_text, temperature.value, max_length.value):
\* the third positional parameter is max_length, the fourth is temperature.
book_recommendation_interface(temperature, max_length) ==
  GenerateArgs(temperature, max_length)
content_question_interface(temperature, max_length) ==
  GenerateArgs(temperature, max_length)

\* Mutant of Gate: generation goes on whatever the flag says.
GateOpen(flag) == TRUE

\* `if not is_working: return ...` is skipped when the flag is set.
Gate(flag) == flag

\* A caller enters generate_response in a free slot with its arguments, and
\* `if not is_working` reads the flag.
Enter(r, args) ==
  /\ req[r].pc = "idle"
  /\ req' = [req EXCEPT ![r] = [IdleRequest EXCEPT
                                  !.pc = IF Gate(is_working) THEN "primary"
                                         ELSE "refuse",
                                  !.max_length = args.max_length,
                                  !.temperature = args.temperature,
                                  !.gate = is_working]]
  /\ UNCHANGED <<hf_token, client, status_message, is_working, ui,
                 temperature_pos, max_length_pos, handles_made, startup, refresh>>

\* The chat's lambda reads temperature.value and max_length.value, the values
\* the sliders were constructed with.
chat_submit(r) ==
  /\ ui = "full"
  /\ Enter(r, chat_interface(TemperatureValue, MaxLengthValue))

rec_button_click(r) ==
  /\ ui = "full"
  /\ Enter(r,
           book_recommendation_interface(TemperatureValue, MaxLengthValue))

question_button_click(r) ==
  /\ ui = "full"
  /\ Enter(r,
           content_question_interface(TemperatureValue, MaxLengthValue))

\* Any other caller of the module's function, with the default parameters.
direct_call(r) ==
  Enter(r, GenerateArgs(DefaultMaxLength, DefaultTemperature))

\* The positions a slider can be put in.
TemperaturePositions ==
  {x \in TemperatureMin..TemperatureMax : (x - TemperatureMin) % TemperatureStep = 0}
MaxLengthPositions ==
  {x \in MaxLengthMin..MaxLengthMax : (x - MaxLengthMin) % MaxLengthStep = 0}

move_temperature ==
  /\ ui = "full"
  /\ \E x \in TemperaturePositions \ {temperature_pos} : temperature_pos' = x
  /\ UNCHANGED <<hf_token, client, status_message, is_working, ui,
                 max_length_pos, handles_made, startup, refresh, req>>

move_max_length ==
  /\ ui = "full"
  /\ \E x \in MaxLengthPositions \ {max_length_pos} : max_length_pos' = x
  /\ UNCHANGED <<hf_token, client, status_message, is_working, ui,
                 temperature_pos, handles_made, startup, refresh, req>>

\* -------------------------------------------------------- generate_response
\* Mutant of InnerExceptCatches: only an unsupported-operation error falls back.
InnerExceptCatchesUnsupported(chat_error) ==
  Contains(<<"n","o","t"," ","s","u","p","p","o","r","t","e","d">>,
           Lower(chat_error))

\* except Exception as chat_error: every exception of the inner try is caught.
InnerExceptCatches(chat_error) == TRUE

\* Mutant of OuterExcept: the exception leaves generate_response.
OuterExceptReraises(e) == Result("raised", e, NoStatus)

\* except Exception as e: return the formatted error string.
OuterExcept(e) == Result("error", e, NoStatus)

\* The refusal string of line 45, which embeds status_message.
Refusal(status) == Result("refusal", <<>>, status)

\* Lines 83-86: the stripped text, or the apology when it is empty.
FallbackResult(response) ==
  IF response # <<>> /\ Len(Strip(response)) > 0
  THEN Result("text", Strip(response), NoStatus)
  ELSE Result("apology", Apology, NoStatus)

\* return f"... {status_message} ..."
generate_response_refuse(r) ==
  /\ req[r].pc = "refuse"
  /\ req' = [req EXCEPT ![r].pc = "done",
                        ![r].result = Refusal(status_message)]
  /\ UNCHANGED <<hf_token, client, status_message, is_working, ui,
                 temperature_pos, max_length_pos, handles_made, startup, refresh>>

\* Whether an error text names an unsupported operation, in any letter case.
Unsupported(e) ==
  Contains(<<"n","o","t"," ","s","u","p","p","o","r","t","e","d">>, Lower(e))

\* How the inner try ended, for the record: with a returned text, with an error
\* naming an unsupported operation, or with another error.
FailureKind(e) == IF Unsupported(e) THEN "unsupported" ELSE "other"

\* The request after the inner try ended with `out` (a returned text or a raised
\* exception), having attempted the call `attempt`.
AfterChat(q, attempt, out) ==
  IF ~out.raised
  THEN [q EXCEPT !.pc = "done", !.calls = Append(@, attempt), !.primary = "ok",
                 !.result = Result("text", out.value, NoStatus)]
  ELSE IF InnerExceptCatches(out.err)
  THEN [q EXCEPT !.pc = "fallback", !.calls = Append(@, attempt),
                 !.primary = FailureKind(out.err), !.chat_error = out.err]
  ELSE [q EXCEPT !.pc = "done", !.calls = Append(@, attempt),
                 !.primary = FailureKind(out.err),
                 !.result = OuterExcept(out.err)]

\* client.chat_completion(...) on the global client as it is now, and the
\* decoding of its response.
generate_response_primary(r) ==
  /\ req[r].pc = "primary"
  /\ LET attempt == Attempt("chat", client, req[r].max_length, req[r].temperature) IN
       IF client = NoClient
       THEN req' = [req EXCEPT ![r] = AfterChat(@, attempt, Raised(ErrNoChat))]
       ELSE \E out \in ChatOutcomes :
              req' = [req EXCEPT ![r] =
                        AfterChat(@, attempt,
                                  IF out.raised THEN out ELSE DecodeChat(out.value))]
  /\ UNCHANGED <<hf_token, client, status_message, is_working, ui,
                 temperature_pos, max_length_pos, handles_made, startup, refresh>>

\* client.text_generation(...) on the global client as it is now.  Leaving the
\* except clause unbinds chat_error.
generate_response_fallback(r) ==
  /\ req[r].pc = "fallback"
  /\ LET attempt == Attempt("text", client,
                            Min(req[r].max_length, FallbackMaxTokens),
                            Min(req[r].temperature, FallbackMaxTemperature)) IN
       IF client = NoClient
       THEN req' = [req EXCEPT ![r].pc = "done",
                               ![r].calls = Append(@, attempt),
                               ![r].chat_error = <<>>,
                               ![r].result = OuterExcept(ErrNoTextGen)]
       ELSE \E out \in TextOutcomes :
              req' = [req EXCEPT ![r].pc = "done",
                                 ![r].calls = Append(@, attempt),
                                 ![r].chat_error = <<>>,
                                 ![r].result = IF out.raised
                                                THEN OuterExcept(out.err)
                                                ELSE FallbackResult(out.value)]
  /\ UNCHANGED <<hf_token, client, status_message, is_working, ui,
                 temperature_pos, max_length_pos, handles_made, startup, refresh>>

\* The caller has the returned string; the slot is free again.
generate_response_return(r) ==
  /\ req[r].pc = "done"
  /\ req[r].result.kind # "raised"
  /\ req' = [req EXCEPT ![r] = IdleRequest]
  /\ UNCHANGED <<hf_token, client, status_message, is_working, ui,
                 temperature_pos, max_length_pos, handles_made, startup, refresh>>

\* ------------------------------------------------------- the specifications
\* The app serving: refreshes and calls of generate_response, interleaved.
Next ==
  \/ refresh_model_store_client(UsualInitErrors)
  \/ refresh_model_store_status
  \/ refresh_model_store_is_working
  \/ \E r \in Requests : chat_submit(r)
  \/ \E r \in Requests : rec_button_click(r)
  \/ \E r \in Requests : question_button_click(r)
  \/ \E r \in Requests : direct_call(r)
  \/ \E r \in Requests : generate_response_refuse(r)
  \/ \E r \in Requests : generate_response_primary(r)
  \/ \E r \in Requests : generate_response_fallback(r)
  \/ \E r \in Requests : generate_response_return(r)

Spec == Init /\ [][Next]_vars

\* The initializer alone, at startup and in refreshes, on every error text.
InitAll == Startup(InitErrors)

NextInit ==
  \/ refresh_model_store_client(InitErrors)
  \/ refresh_model_store_status
  \/ refresh_model_store_is_working

SpecInit == InitAll /\ [][NextInit]_vars

\* The front end: the two sliders are moved and the three actions invoked,
\* while the handle is refreshed.
NextUI ==
  \/ refresh_model_store_client(UsualInitErrors)
  \/ refresh_model_store_status
  \/ refresh_model_store_is_working
  \/ move_temperature
  \/ move_max_length
  \/ \E r \in Requests : chat_submit(r)
  \/ \E r \in Requests : rec_button_click(r)
  \/ \E r \in Requests : question_button_click(r)
  \/ \E r \in Requests : generate_response_refuse(r)
  \/ \E r \in Requests : generate_response_primary(r)
  \/ \E r \in Requests : generate_response_fallback(r)
  \/ \E r \in Requests : generate_response_return(r)

SpecUI == Init /\ [][NextUI]_vars

\* ------------------------------------------------------------- the claims
\* The styles of the endpoint calls a request has attempted, in order.
Styles(q) == [i \in 1..Len(q.calls) |-> q.calls[i].style]

\* The strings generate_response can return, by the statement that builds them.
ReturnedStrings == {"refusal", "text", "apology", "error"}

\* C1: every call of generate_response ends by returning a string, whatever the
\* endpoint does: a request that has ended holds a returned string, never an
\* exception that left the function, and can hand it to its caller; and a
\* request attempts at most the primary call and then at most one fallback call
\* (no retry).
C1_AlwaysReturnsString ==
  \A r \in Requests :
    /\ req[r].pc \in {"idle", "refuse", "primary", "fallback", "done"}
    /\ req[r].pc = "done" => req[r].result.kind \in ReturnedStrings
    /\ req[r].pc # "done" => req[r].result = NoResult
    /\ Styles(req[r]) \in {<<>>, <<"chat">>, <<"chat", "text">>}
    /\ req[r].pc = "done" => ENABLED generate_response_return(r)

\* A request whose primary call and fallback call both failed has returned the
\* formatted error string.
C1_Witness ==
  \E r \in Requests :
    /\ req[r].pc = "done"
    /\ req[r].primary \in {"unsupported", "other"}
    /\ Styles(req[r]) = <<"chat", "text">>
    /\ req[r].result.kind = "error"

GateDecides ==
  \A r \in Requests :
    /\ req[r].pc # "idle" /\ ~req[r].gate =>
         /\ req[r].pc \in {"refuse", "done"}
         /\ req[r].calls = <<>>
         /\ req[r].pc = "done" => req[r].result.kind = "refusal"
    /\ req[r].pc # "idle" /\ req[r].gate =>
         /\ req[r].pc \in {"primary", "fallback", "done"}
         /\ req[r].pc # "primary" => Len(req[r].calls) >= 1
         /\ req[r].pc = "done" => req[r].result.kind # "refusal"

\* With no refresh running, a flag that says "not working" stands for a failed
\* initialization: there is no handle and the status is a failure's.
FailureRecorded ==
  refresh.pc = "idle" /\ ~is_working =>
    /\ client = NoClient
    /\ status_message.kind \in {"no_token", "auth", "denied", "not_found", "generic"}

\* The flag is written by nothing but the last store of refresh_model, which
\* clears it when the refresh has failed and sets it when it has succeeded; a
\* request reads it when it is called; the refusal embeds status_message as it
\* is when the string is built.
FlagSteps ==
  /\ is_working' # is_working =>
       /\ refresh.pc = "store_is_working"
       /\ refresh'.pc = "idle"
       /\ is_working' = (refresh.ret.client # NoClient)
  /\ refresh.pc = "store_is_working" /\ refresh'.pc = "idle" =>
       is_working' = (refresh.ret.client # NoClient)
  /\ \A r \in Requests :
       /\ req[r].pc = "idle" /\ req'[r].pc # "idle" => req'[r].gate = is_working
       /\ req[r].pc = "refuse" /\ req'[r].pc = "done" =>
            req'[r].result = Result("refusal", <<>>, status_message)

\* C3: initialization failures are sticky.  Once a failed initialize or refresh
\* has cleared the flag, it stays cleared until a refresh that succeeds sets
\* it; every call made while it is cleared returns the refusal embedding the
\* current status and attempts no endpoint call; every call made while it is
\* set goes on to the primary call.
C3_StickyFailure == [](GateDecides /\ FailureRecorded) /\ [][FlagSteps]_vars

\* After a started app's refresh failed, a call has returned the refusal with
\* the failure's status.
C3_Witness ==
  /\ startup = Constructed
  /\ refresh.pc = "idle"
  /\ ~is_working
  /\ \E r \in Requests :
       /\ req[r].pc = "done"
       /\ req[r].result = Result("refusal", <<>>, status_message)
       /\ status_message.kind \in {"auth", "generic"}

\* C4: with the credential missing, initialize returns (None, the status that
\* says so) without reaching the constructor, no handle is ever made, and every
\* call of generate_response returns the refusal with that status and attempts
\* no endpoint call.
C4_MissingCredential ==
  TokenMissing(hf_token) =>
    /\ startup = NotCalled
    /\ handles_made = 0
    /\ client = NoClient
    /\ ~is_working
    /\ status_message = Status("no_token", <<>>)
    /\ \A r \in Requests :
         /\ req[r].calls = <<>>
         /\ req[r].pc \in {"idle", "refuse", "done"}
         /\ req[r].pc = "done" =>
              req[r].result = Result("refusal", <<>>, Status("no_token", <<>>))

\* With the credential missing, a call has returned the refusal.
C4_Witness ==
  /\ TokenMissing(hf_token)
  /\ \E r \in Requests : req[r].pc = "done" /\ req[r].result.kind = "refusal"

\* Whether a number counted in tenths is a whole number.
IsInteger(x) == x % Tenth = 0

\* C5 as stated: every call a front-end action makes passes a temperature in
\* [0.1, 1.0] and a whole max_length in [100, 800] (SpecUI has no other caller).
C5_ArgumentsInRange ==
  \A r \in Requests :
    req[r].pc # "idle" =>
      /\ req[r].temperature \in TemperatureMin..TemperatureMax
      /\ IsInteger(req[r].max_length)
      /\ req[r].max_length \in MaxLengthMin..MaxLengthMax

\* C6 as stated: a request that passed the readiness check makes every endpoint
\* call on one and the same handle, and never on an absent one.
C6_OneHandlePerRequest ==
  \A r \in Requests :
    \A i \in 1..Len(req[r].calls) :
      /\ req[r].calls[i].handle # NoClient
      /\ req[r].calls[i].handle = req[r].calls[1].handle

\* C7 as stated: whenever the handle is not ready, the refresh action is there.
C7_RefreshAlwaysAvailable == ~is_working => RefreshAvailable

\* Which groups of substrings an error text matches.
MatchesAuth(e) ==
  Contains(<<"4","0","1">>, e)
    \/ Contains(<<"u","n","a","u","t","h","o","r","i","z","e","d">>, Lower(e))
MatchesNotFound(e) ==
  Contains(<<"4","0","4">>, e)
    \/ Contains(<<"n","o","t"," ","f","o","u","n","d">>, Lower(e))
MatchesDenied(e) ==
  Contains(<<"4","0","3">>, e)
    \/ Contains(<<"f","o","r","b","i","d","d","e","n">>, Lower(e))
    \/ Contains(<<"g","a","t","e","d">>, Lower(e))

\* The class the spec's listing gives: authentication, then not-provisioned,
\* then access-denied, then generic.
ListedClass(e) ==
  CASE MatchesAuth(e) -> "auth"
    [] ~MatchesAuth(e) /\ MatchesNotFound(e) -> "not_found"
    [] ~MatchesAuth(e) /\ ~MatchesNotFound(e) /\ MatchesDenied(e) -> "denied"
    [] OTHER -> "generic"

\* The same with access-denied before not-provisioned.
DeniedFirstClass(e) ==
  CASE MatchesAuth(e) -> "auth"
    [] ~MatchesAuth(e) /\ MatchesDenied(e) -> "denied"
    [] ~MatchesAuth(e) /\ ~MatchesDenied(e) /\ MatchesNotFound(e) -> "not_found"
    [] OTHER -> "generic"

\* Every failed construction, at startup (its status is still the global one,
\* the page having no refresh) and in a running refresh, returns no handle and
\* the status of the given class (startup_class for the startup's error text,
\* refresh_class for the refresh's); the generic and the access-denied statuses
\* echo the error text.
Classified(startup_class, refresh_class) ==
  /\ startup.raised =>
       /\ client = NoClient
       /\ status_message.kind = startup_class
       /\ status_message.kind \in {"generic", "denied"} =>
            status_message.err = startup.err
  /\ refresh.pc # "idle" /\ refresh.ret.ctor.raised =>
       /\ refresh.ret.client = NoClient
       /\ refresh.ret.status.kind = refresh_class
       /\ refresh.ret.status.kind \in {"generic", "denied"} =>
            refresh.ret.status.err = refresh.ret.ctor.err

\* C8 as stated: a failed construction is classified authentication, then
\* not-provisioned, then access-denied, then generic, the earliest group
\* deciding.
C8_ListedOrder ==
  Classified(ListedClass(startup.err), ListedClass(refresh.ret.ctor.err))

\* C8 as amended: the earliest group in the order authentication, access-denied,
\* not-provisioned, generic decides.
C8_DeniedBeforeNotFound ==
  Classified(DeniedFirstClass(startup.err), DeniedFirstClass(refresh.ret.ctor.err))

\* A refresh has failed on a text of both the access-denied and the
\* not-provisioned group, and its status is the access-denied one.
C8_Witness ==
  /\ refresh.pc # "idle"
  /\ refresh.ret.ctor.raised
  /\ MatchesDenied(refresh.ret.ctor.err)
  /\ MatchesNotFound(refresh.ret.ctor.err)
  /\ refresh.ret.status.kind = "denied"

\* C9 as stated: a call whose endpoint call succeeded never returns the empty
\* string (an empty or blank result becomes a message).
C9_NeverEmpty ==
  \A r \in Requests :
    req[r].pc = "done" /\ req[r].result.kind \in {"text", "apology"} =>
      req[r].result.text # <<>>

\* C10 as stated: in every state the flag is set exactly when there is a handle.
C10_ReadyIffHandle == is_working = (client # NoClient)
====
